---- MODULE Spec2Model ----
(***************************************************************************)
(* Model of src/app.py: the reference normalizer excel_like_ref and the    *)
(* two classifiers priority_1_logic and priority_2_logic.                  *)
(*                                                                         *)
(* Text is a sequence of characters, each character a one-element string   *)
(* ("a", "[", " ").  Characters that have no plain spelling are named:    *)
(* "TAB", "NBSP" (U+00A0), "ZWSP" (U+200B) and "ENDASH" (U+2013).  A       *)
(* missing cell (NaN) is the one-element sequence Missing, which is no     *)
(* text.                                                                   *)
(***************************************************************************)
EXTENDS Integers, Sequences, FiniteSets, TLC

VARIABLES
    uploaded,   \* the table as read from the uploaded file
    today,      \* pd.Timestamp(datetime.now().date()), in hours
    df,         \* the caller's table object, which both calls receive
    last,       \* what ran last on df: "load", "p1" or "p2"
    in1,        \* the table as priority_1_logic last received it
    in2,        \* the table as priority_2_logic last received it
    result1,    \* what priority_1_logic last returned
    result2,    \* what priority_2_logic last returned
    ref,        \* normalizer: the raw reference value
    key1,       \* normalizer: excel_like_ref(ref)
    key2,       \* normalizer: excel_like_ref(key1)
    npc         \* normalizer: "start", "once" or "twice"

vars == <<uploaded, today, df, last, in1, in2, result1, result2,
          ref, key1, key2, npc>>

classifierVars == <<uploaded, today, df, last, in1, in2, result1, result2>>
normalizerVars == <<ref, key1, key2, npc>>

----------------------------------------------------------------------------
(* Characters and text helpers.                                            *)

Missing == <<"NaN">>

LowerAlpha ==
    {"a", "b", "c", "d", "e", "f", "g", "h", "i", "j", "k", "l", "m",
     "n", "o", "p", "q", "r", "s", "t", "u", "v", "w", "x", "y", "z"}

Digits == {"0", "1", "2", "3", "4", "5", "6", "7", "8", "9"}

LowerOf ==
    ("A" :> "a") @@ ("B" :> "b") @@ ("C" :> "c") @@ ("D" :> "d") @@
    ("E" :> "e") @@ ("F" :> "f") @@ ("G" :> "g") @@ ("H" :> "h") @@
    ("I" :> "i") @@ ("J" :> "j") @@ ("K" :> "k") @@ ("L" :> "l") @@
    ("M" :> "m") @@ ("N" :> "n") @@ ("O" :> "o") @@ ("P" :> "p") @@
    ("Q" :> "q") @@ ("R" :> "r") @@ ("S" :> "s") @@ ("T" :> "t") @@
    ("U" :> "u") @@ ("V" :> "v") @@ ("W" :> "w") @@ ("X" :> "x") @@
    ("Y" :> "y") @@ ("Z" :> "z")

UpperAlpha == DOMAIN LowerOf

\* str.lower()
Lower(s) ==
    [i \in 1..Len(s) |-> IF s[i] \in UpperAlpha THEN LowerOf[s[i]] ELSE s[i]]

\* what str.strip() removes from both ends
Whitespace == {" ", "TAB", "NBSP"}

\* the character class [\s\u200b\xa0] of line 21
SpaceClass == Whitespace \cup {"ZWSP"}

\* the character class [a-z0-9\-] of line 24
KitHead == LowerAlpha \cup Digits \cup {"-"}

\* the character class [a-z0-9\-_] of lines 24 and 31
KitTail == KitHead \cup {"_"}

SetMin(S) == CHOOSE x \in S : \A y \in S : x <= y

AllIn(s, class) == \A i \in 1..Len(s) : s[i] \in class

\* str.strip(chars): drop the characters of `chars` from both ends
StripChars(s, chars) ==
    IF AllIn(s, chars) THEN <<>>
    ELSE SubSeq(s,
                CHOOSE i \in 1..Len(s) :
                    s[i] \notin chars /\ \A j \in 1..(i - 1) : s[j] \in chars,
                CHOOSE i \in 1..Len(s) :
                    s[i] \notin chars /\ \A j \in (i + 1)..Len(s) : s[j] \in chars)

\* re.sub(r"[class]+", "", s)
RemoveChars(s, class) == SelectSeq(s, LAMBDA c : c \notin class)

\* unicodedata.normalize("NFKC", s) on the characters modelled: the
\* no-break space decomposes to a space, the rest is already normal
NFKC(s) == [i \in 1..Len(s) |-> IF s[i] = "NBSP" THEN " " ELSE s[i]]

StartsWith(s, p) == Len(s) >= Len(p) /\ SubSeq(s, 1, Len(p)) = p

\* needle in haystack (Python's `in` on strings)
Contains(s, p) ==
    \E i \in 0..(Len(s) - Len(p)) : \A j \in 1..Len(p) : s[i + j] = p[j]

----------------------------------------------------------------------------
(* excel_like_ref, lines 17-35.                                            *)

\* re.search(r"\[([a-z0-9\-]+kit[a-z0-9\-_]+)\]", txt): the places where the
\* pattern matches, as <<position of "[", position of "]">>.  Neither class
\* holds a bracket, so a match opened at i closes at one j only.
KitMatches(txt) ==
    {m \in {i \in 1..Len(txt) : txt[i] = "["} \X
            {j \in 1..Len(txt) : txt[j] = "]"} :
        /\ m[1] < m[2]
        /\ \E k \in (m[1] + 2)..(m[2] - 4) :
              /\ SubSeq(txt, k, k + 2) = <<"k", "i", "t">>
              /\ AllIn(SubSeq(txt, m[1] + 1, k - 1), KitHead)
              /\ AllIn(SubSeq(txt, k + 3, m[2] - 1), KitTail)}

\* group(1) of the leftmost match
KitGroup(txt) ==
    LET first == CHOOSE m \in KitMatches(txt) :
                     \A o \in KitMatches(txt) : m[1] <= o[1]
    IN  SubSeq(txt, first[1] + 1, first[2] - 1)

\* re.sub(r"^(zr|za|zxx)\d+", "", txt): one prefix and the digits after it
StripPrefix(txt) ==
    LET heads == {h \in {<<"z", "r">>, <<"z", "a">>, <<"z", "x", "x">>} :
                     /\ StartsWith(txt, h)
                     /\ Len(txt) > Len(h)
                     /\ txt[Len(h) + 1] \in Digits}
    IN  IF heads = {} THEN txt
        ELSE LET h == CHOOSE x \in heads : TRUE
                 stop == {i \in (Len(h) + 1)..Len(txt) : txt[i] \notin Digits}
             IN  IF stop = {} THEN <<>>
                 ELSE SubSeq(txt, SetMin(stop), Len(txt))

\* re.match(r"^([a-z0-9\-_]+)\[\1\]$", txt): the lengths n of X in X[X]
DupMatches(txt) ==
    {n \in 1..Len(txt) :
        /\ Len(txt) = 2 * n + 2
        /\ AllIn(SubSeq(txt, 1, n), KitTail)
        /\ txt[n + 1] = "["
        /\ SubSeq(txt, n + 2, 2 * n + 1) = SubSeq(txt, 1, n)
        /\ txt[2 * n + 2] = "]"}

\* lines 24-29: the kit token in brackets when there is one, else the text
\* without its prefix and without brackets at its ends
KitOrPrefix(txt) ==
    IF KitMatches(txt) # {}
    THEN KitGroup(txt)
    ELSE StripChars(StripPrefix(txt), {"[", "]"})

\* lines 31-33: X[X] becomes X
CollapseDup(txt) ==
    IF DupMatches(txt) # {}
    THEN SubSeq(txt, 1, CHOOSE n \in DupMatches(txt) : TRUE)
    ELSE txt

excel_like_ref(r) ==
    IF r = Missing THEN <<>>
    ELSE StripChars(
             CollapseDup(
                 KitOrPrefix(Lower(RemoveChars(NFKC(r), SpaceClass)))),
             Whitespace)

----------------------------------------------------------------------------
(* Tables.  A table is its column names and its rows; a row carries its    *)
(* pandas index label and one cell per column.  A date cell is a timestamp *)
(* (hours since 2023-12-31 00:00), text that does not parse, or NaT.       *)

NoTable == [columns |-> <<>>, rows |-> <<>>]

Ts(h) == [kind |-> "ts", v |-> h]

DateText == [kind |-> "text", v |-> 0]

NaT == [kind |-> "nat", v |-> 0]

HoursPerDay == 24

DAY_LIMIT == 25

\* pd.Timestamp("2024-01-01")
DATE_THRESHOLD == 24

REJECTED ==
    <<"r", "e", "j", "e", "c", "t", "e", "d">>

PO_PAPER_SUBMITTED ==
    <<"p", "o", " ", "p", "a", "p", "e", "r", " ", "s", "u", "b", "m", "i",
      "t", "t", "e", "d">>

UNDER_REVIEW ==
    <<"u", "n", "d", "e", "r", " ", "r", "e", "v", "i", "e", "w", " ", "(",
      "r", "e", "v", "i", "e", "w", "e", "r", " ", "a", "s", "s", "i", "g",
      "n", "e", "d", " ", "b", "y", " ", "e", "i", "c", ")">>

UNDER_REVIEW_REVISED ==
    <<"u", "n", "d", "e", "r", " ", "r", "e", "v", "i", "e", "w", " ",
      "ENDASH", " ", "r", "e", "v", "i", "s", "e", "d", " ", "v", "e", "r",
      "s", "i", "o", "n", " ", "(", "r", "e", "v", "i", "e", "w", "e", "r",
      " ", "a", "s", "s", "i", "g", "n", "e", "d", " ", "b", "y", " ", "e",
      "i", "c", ")">>

SENT_BACK ==
    <<"p", "a", "p", "e", "r", " ", "s", "e", "n", "d", " ", "b", "a", "c",
      "k", " ", "t", "o", " ", "a", "u", "t", "h", "o", "r">>

\* str(NaN)
NanText == <<"n", "a", "n">>

\* the first column whose lowercased name holds one of the needles
FirstColumn(columns, needles) ==
    SetMin({i \in 1..Len(columns) :
               \E n \in needles : Contains(Lower(columns[i]), n)})

\* lines 43-46 and 87-90: the four columns the rules read
Cols(columns) ==
    [ref     |-> FirstColumn(columns, {<<"r", "e", "f">>,
                    <<"r", "e", "f", "e", "r", "e", "n", "c", "e">>}),
     status  |-> FirstColumn(columns, {<<"s", "t", "a", "t", "u", "s">>}),
     initial |-> FirstColumn(columns, {<<"i", "n", "i", "t", "i", "a", "l">>}),
     updated |-> FirstColumn(columns, {<<"u", "p", "d", "a", "t", "e", "d">>,
                    <<"l", "a", "s", "t">>})]

\* pd.to_datetime(cell, errors="coerce")
to_datetime(cell) == IF cell.kind = "ts" THEN cell ELSE NaT

\* one cell as lines 49, 52-53 (and 92-94) leave it
Prepared(c, j, v) ==
    IF j = c.ref THEN excel_like_ref(v)
    ELSE IF j \in {c.initial, c.updated} THEN to_datetime(v)
    ELSE v

PreparedRows(rows, c, width) ==
    [k \in 1..Len(rows) |->
        [idx |-> rows[k].idx,
         cells |-> [j \in 1..width |-> Prepared(c, j, rows[k].cells[j])]]]

\* line 42 (and 86): df.columns.str.strip()
StrippedColumns(columns) ==
    [i \in 1..Len(columns) |-> StripChars(columns[i], Whitespace)]

\* lines 42-53 and 86-94: what both calls do to the table they are given,
\* with the columns c that lines 43-46 found in the stripped names
Preprocess(columns, c, rows) ==
    [columns |-> columns, rows |-> PreparedRows(rows, c, Len(columns))]

\* .str.strip().str.lower() of a status that is text
Clean(status) == Lower(StripChars(status, Whitespace))

\* mutant of OlderThanLimit: a date that did not parse counts as the epoch
OlderThanLimitNoNull(now, cell) ==
    (now - cell.v) \div HoursPerDay > DAY_LIMIT

\* (today - cell).dt.days > DAY_LIMIT; NaT gives NaN, which is not greater
OlderThanLimit(now, cell) ==
    /\ cell.kind = "ts"
    /\ (now - cell.v) \div HoursPerDay > DAY_LIMIT

\* cell >= DATE_THRESHOLD; NaT compares False
OnOrAfterThreshold(cell) ==
    /\ cell.kind = "ts"
    /\ cell.v >= DATE_THRESHOLD

\* the rows of `rows` at the positions `keep`, in order
AtPositions(rows, keep) ==
    LET tagged == [i \in 1..Len(rows) |-> [pos |-> i, row |-> rows[i]]]
        kept == SelectSeq(tagged, LAMBDA x : x.pos \in keep)
    IN  [i \in 1..Len(kept) |-> kept[i].row]

\* mutant of drop_duplicates: keep="last"
drop_duplicates_last(rows, c) ==
    AtPositions(rows, {i \in 1..Len(rows) :
                          \A j \in (i + 1)..Len(rows) :
                              rows[j].cells[c] # rows[i].cells[c]})

\* rows.drop_duplicates(subset=[column c], keep="first")
drop_duplicates(rows, c) ==
    AtPositions(rows, {i \in 1..Len(rows) :
                          \A j \in 1..(i - 1) :
                              rows[j].cells[c] # rows[i].cells[c]})

\* df[df[ref_col].isin(refs)]
WithRefIn(rows, c, refs) == SelectSeq(rows, LAMBDA r : r.cells[c.ref] \in refs)

\* the rows of one group
Group(rows, c, key) == WithRefIn(rows, c, {key})

Keys(rows, c) == {rows[i].cells[c.ref] : i \in 1..Len(rows)}

\* mutant of AllRejected: any() in place of all()
AnyRejected(group, c) ==
    \E i \in 1..Len(group) :
        Clean(IF group[i].cells[c.status] = Missing
              THEN NanText ELSE group[i].cells[c.status]) = REJECTED

\* line 60: all(str(s).strip().lower() == "rejected" for s in x)
AllRejected(group, c) ==
    \A i \in 1..Len(group) :
        Clean(IF group[i].cells[c.status] = Missing
              THEN NanText ELSE group[i].cells[c.status]) = REJECTED

\* mutant of DateFilter: >= DAY_LIMIT in place of > DAY_LIMIT
DateFilterAtLimit(r, c, now) ==
    /\ OnOrAfterThreshold(r.cells[c.initial])
    /\ r.cells[c.updated].kind = "ts"
    /\ (now - r.cells[c.updated].v) \div HoursPerDay >= DAY_LIMIT

\* lines 69-72: the date filter of rule 1
DateFilter(r, c, now) ==
    /\ OnOrAfterThreshold(r.cells[c.initial])
    /\ OlderThanLimit(now, r.cells[c.updated])

\* lines 58-63: the groups whose statuses are all "rejected"
Priority1Refs(rows, c) ==
    {k \in Keys(rows, c) : AllRejected(Group(rows, c, k), c)}

\* lines 66-75
Priority1Rows(rows, c, now) ==
    drop_duplicates(
        SelectSeq(WithRefIn(rows, c, Priority1Refs(rows, c)),
                  LAMBDA r : DateFilter(r, c, now)),
        c.ref)

Result1Of(t, c, now) ==
    [df |-> t, result |-> Priority1Rows(t.rows, c, now)]

Priority1With(columns, c, rows, now) ==
    Result1Of(Preprocess(columns, c, rows), c, now)

Priority1On(columns, rows, now) ==
    Priority1With(columns, Cols(columns), rows, now)

\* lines 40-77; returns the table as the call leaves it and the result
priority_1_logic(d, now) ==
    Priority1On(StrippedColumns(d.columns), d.rows, now)

RuleKeys == {"2a", "2b", "2c", "2d"}

\* lines 99-104: each rule's other status and the column whose date it reads
Conditions(c) ==
    [k \in RuleKeys |->
        CASE k = "2a" -> [other |-> PO_PAPER_SUBMITTED, date_col |-> c.initial]
          [] k = "2b" -> [other |-> UNDER_REVIEW, date_col |-> c.updated]
          [] k = "2c" -> [other |-> UNDER_REVIEW_REVISED, date_col |-> c.updated]
          [] k = "2d" -> [other |-> SENT_BACK, date_col |-> c.updated]]

\* line 115: set(group[status_col].dropna().astype(str).str.strip().str.lower())
Statuses(group, c) ==
    {Clean(group[i].cells[c.status]) :
        i \in {j \in 1..Len(group) : group[j].cells[c.status] # Missing}}

\* line 118: list(pair - {"rejected"})[0]
ActiveStatus(pair) == CHOOSE s \in pair \ {REJECTED} : TRUE

\* mutant of AnyOlder: the records are not narrowed to the active status
AnyOlderAnyStatus(group, c, active_status, date_col, now) ==
    \E i \in 1..Len(group) : OlderThanLimit(now, group[i].cells[date_col])

\* lines 119-122: some record with the active status is older than the limit
AnyOlder(group, c, active_status, date_col, now) ==
    \E i \in 1..Len(group) :
        /\ group[i].cells[c.status] # Missing
        /\ Clean(group[i].cells[c.status]) = active_status
        /\ OlderThanLimit(now, group[i].cells[date_col])

\* mutant of Accepts: the pair need only be among the statuses
AcceptsSuperset(conf, group, c, now) ==
    /\ {REJECTED, conf.other} \subseteq Statuses(group, c)
    /\ AnyOlder(group, c, ActiveStatus({REJECTED, conf.other}),
                conf.date_col, now)

\* lines 117-123: whether the rule takes the group
Accepts(conf, group, c, now) ==
    /\ Statuses(group, c) = {REJECTED, conf.other}
    /\ AnyOlder(group, c, ActiveStatus({REJECTED, conf.other}),
                conf.date_col, now)

\* lines 112-123
ValidRefs(conf, rows, c, now) ==
    {key \in Keys(rows, c) : Accepts(conf, Group(rows, c, key), c, now)}

\* lines 126-129
Priority2Rows(conf, rows, c, now) ==
    drop_duplicates(WithRefIn(rows, c, ValidRefs(conf, rows, c, now)), c.ref)

OutputDict(rows, c, conditions, now) ==
    [k \in RuleKeys |-> Priority2Rows(conditions[k], rows, c, now)]

Result2Of(t, c, now) ==
    [df |-> t, result |-> OutputDict(t.rows, c, Conditions(c), now)]

Priority2With(columns, c, rows, now) ==
    Result2Of(Preprocess(columns, c, rows), c, now)

Priority2On(columns, rows, now) ==
    Priority2With(columns, Cols(columns), rows, now)

\* lines 84-133; returns the table as the call leaves it and the results
priority_2_logic(d, now) ==
    Priority2On(StrippedColumns(d.columns), d.rows, now)

NoResult1 == [done |-> FALSE, table |-> <<>>]

NoResult2 == [done |-> FALSE, tables |-> [k \in RuleKeys |-> <<>>]]

----------------------------------------------------------------------------
(* The uploaded table.  Its cells are drawn from small pools, one scenario *)
(* at a time: a scenario fixes the header spelling and the values each     *)
(* column may hold.                                                        *)

MaxRows == 3

RawRejected == <<"R", "e", "j", "e", "c", "t", "e", "d", " ">>

RawPO ==
    <<" ", "P", "O", " ", "P", "a", "p", "e", "r", " ", "S", "u", "b", "m",
      "i", "t", "t", "e", "d">>

RawUnderReview ==
    <<"U", "n", "d", "e", "r", " ", "R", "e", "v", "i", "e", "w", " ", "(",
      "R", "e", "v", "i", "e", "w", "e", "r", " ", "A", "s", "s", "i", "g",
      "n", "e", "d", " ", "b", "y", " ", "E", "I", "C", ")">>

RawUnderReviewRevised ==
    <<"U", "n", "d", "e", "r", " ", "R", "e", "v", "i", "e", "w", " ",
      "ENDASH", " ", "R", "e", "v", "i", "s", "e", "d", " ", "V", "e", "r",
      "s", "i", "o", "n", " ", "(", "R", "e", "v", "i", "e", "w", "e", "r",
      " ", "A", "s", "s", "i", "g", "n", "e", "d", " ", "b", "y", " ", "E",
      "I", "C", ")">>

RawSentBack ==
    <<"P", "a", "p", "e", "r", " ", "S", "e", "n", "d", " ", "B", "a", "c",
      "k", " ", "t", "o", " ", "A", "u", "t", "h", "o", "r">>

RawApproved == <<"A", "p", "p", "r", "o", "v", "e", "d">>

RefPlain == <<"a", "b">>

RefSpaced == <<" ", "A", "B">>

RefStacked == <<"z", "r", "1", "z", "r", "1", "a", "b">>

RefKit == <<"z", "r", "5", "[", "x", "-", "k", "i", "t", "-", "1", "]">>

PlainHeaders ==
    << <<"R", "e", "f", "e", "r", "e", "n", "c", "e", "_", "N", "o">>,
       <<"S", "t", "a", "t", "u", "s">>,
       <<"I", "n", "i", "t", "i", "a", "l", "_", "D", "a", "t", "e">>,
       <<"L", "a", "s", "t", "_", "U", "p", "d", "a", "t", "e", "d">> >>

PaddedHeaders ==
    << <<" ", "R", "e", "f">>,
       <<"S", "t", "a", "t", "u", "s", " ">>,
       <<"I", "n", "i", "t", "i", "a", "l">>,
       <<" ", "U", "p", "d", "a", "t", "e", "d", " ">> >>

\* 2023-12-31, 2024-01-01, 2024-01-01 12:00 and 2024-01-02
DayBefore == Ts(DATE_THRESHOLD - HoursPerDay)

ThresholdDay == Ts(DATE_THRESHOLD)

ThresholdNoon == Ts(DATE_THRESHOLD + HoursPerDay \div 2)

DayAfter == Ts(DATE_THRESHOLD + HoursPerDay)

\* midnight, DAY_LIMIT + 1 days after the threshold day: ThresholdDay is
\* 26 days old, ThresholdNoon 25 days and a half, DayAfter 25 days
Todays == {DATE_THRESHOLD + (DAY_LIMIT + 1) * HoursPerDay}

\* rule 2x on its own: its pair of statuses, and its date column on both
\* sides of the limit or unparseable
PairScenario(other, inits, upds) ==
    [columns |-> PlainHeaders, refs |-> {RefPlain},
     statuses |-> {RawRejected, other}, inits |-> inits, upds |-> upds]

Scenarios ==
    { \* rule 1, the dates
      [columns |-> PlainHeaders, refs |-> {RefPlain},
       statuses |-> {RawRejected},
       inits |-> {DayBefore, ThresholdDay},
       upds |-> {DateText, ThresholdDay, ThresholdNoon}],
      \* rule 1, the statuses
      [columns |-> PaddedHeaders, refs |-> {RefSpaced, RefKit},
       statuses |-> {RawRejected, RawApproved, Missing},
       inits |-> {ThresholdDay},
       upds |-> {ThresholdDay}],
      \* every status, all dates old enough
      [columns |-> PlainHeaders, refs |-> {RefPlain},
       statuses |-> {RawRejected, RawPO, RawUnderReview,
                     RawUnderReviewRevised, RawSentBack, Missing},
       inits |-> {ThresholdDay},
       upds |-> {ThresholdDay}],
      PairScenario(RawPO, {DateText, ThresholdDay, DayAfter}, {ThresholdDay}),
      PairScenario(RawUnderReview, {ThresholdDay}, {DateText, ThresholdDay}),
      PairScenario(RawUnderReviewRevised, {DayAfter},
                   {ThresholdDay, ThresholdNoon}),
      PairScenario(RawSentBack, {DateText}, {ThresholdDay, DayAfter}),
      \* several references, one of which normalizes in two steps
      [columns |-> PaddedHeaders, refs |-> {RefPlain, RefKit, RefStacked},
       statuses |-> {RawRejected, RawPO},
       inits |-> {ThresholdDay},
       upds |-> {ThresholdDay}] }

\* the tables of n rows of a scenario; read_excel numbers the rows from 0
Tables(sc, n) ==
    LET cells == {<<r, s, i, u>> : r \in sc.refs, s \in sc.statuses,
                                   i \in sc.inits, u \in sc.upds}
    IN  {[columns |-> sc.columns,
          rows |-> [k \in 1..n |-> [idx |-> k - 1, cells |-> f[k]]]] :
            f \in [1..n -> cells]}

Init ==
    /\ \E sc \in Scenarios : \E n \in 1..MaxRows : uploaded \in Tables(sc, n)
    /\ today \in Todays
    /\ df = uploaded
    /\ last = "load"
    /\ in1 = NoTable
    /\ in2 = NoTable
    /\ result1 = NoResult1
    /\ result2 = NoResult2
    /\ ref = <<>>
    /\ key1 = <<>>
    /\ key2 = <<>>
    /\ npc = "idle"

\* line 154: result1 = priority_1_logic(df)
RunPriority1 ==
    /\ df # NoTable
    /\ \E r \in {priority_1_logic(df, today)} :
           /\ df' = r.df
           /\ result1' = [done |-> TRUE, table |-> r.result]
    /\ in1' = df
    /\ last' = "p1"
    /\ UNCHANGED <<uploaded, today, in2, result2, normalizerVars>>

\* line 177: result2 = priority_2_logic(df)
RunPriority2 ==
    /\ df # NoTable
    /\ \E r \in {priority_2_logic(df, today)} :
           /\ df' = r.df
           /\ result2' = [done |-> TRUE, tables |-> r.result]
    /\ in2' = df
    /\ last' = "p2"
    /\ UNCHANGED <<uploaded, today, in1, result1, normalizerVars>>

\* line 145: the script runs again and reads the file anew
Load ==
    /\ last # "load"
    /\ df' = uploaded
    /\ last' = "load"
    /\ in1' = NoTable
    /\ in2' = NoTable
    /\ result1' = NoResult1
    /\ result2' = NoResult2
    /\ UNCHANGED <<uploaded, today, normalizerVars>>

Next == RunPriority1 \/ RunPriority2 \/ Load

Spec == Init /\ [][Next]_vars

----------------------------------------------------------------------------
(* The normalizer on its own: a raw value is put together from fragments,  *)
(* normalized, and normalized again.                                       *)

MaxParts == 4

Fragments ==
    { <<"z", "r", "1">>, <<"z", "x", "x", "2">>, <<"[">>, <<"]">>,
      <<"a", "b">>, <<"-", "k", "i", "t", "_">>, <<" ", "A">> }

RECURSIVE Concats(_)
Concats(n) ==
    IF n = 0 THEN {<<>>}
    ELSE LET shorter == Concats(n - 1)
         IN  shorter \cup {s \o f : s \in shorter, f \in Fragments}

RawRefs == Concats(MaxParts) \cup {Missing}

NormInit ==
    /\ ref \in RawRefs
    /\ key1 = <<>>
    /\ key2 = <<>>
    /\ npc = "start"
    /\ uploaded = NoTable
    /\ df = NoTable
    /\ today = 0
    /\ last = "load"
    /\ in1 = NoTable
    /\ in2 = NoTable
    /\ result1 = NoResult1
    /\ result2 = NoResult2

\* key = excel_like_ref(raw)
Normalize ==
    /\ npc = "start"
    /\ key1' = excel_like_ref(ref)
    /\ npc' = "once"
    /\ UNCHANGED <<ref, key2, classifierVars>>

\* the key goes through excel_like_ref again, as a table that is classified
\* twice has its reference column normalized twice (lines 49 and 92)
Renormalize ==
    /\ npc = "once"
    /\ key2' = excel_like_ref(key1)
    /\ npc' = "twice"
    /\ UNCHANGED <<ref, key1, classifierVars>>

NormNext == Normalize \/ Renormalize

SpecNorm == NormInit /\ [][NormNext]_vars

----------------------------------------------------------------------------
(* What the properties below read off a state.  After a call, df is the    *)
(* table as the call left it: its references are the keys of the groups.   *)
(* c names df's four columns.                                              *)

RefsIn(table, c) == {table[i].cells[c.ref] : i \in 1..Len(table)}

IdxIn(table) == {table[i].idx : i \in 1..Len(table)}

\* the positions in df of the records of a group
Members(key, c) == {i \in 1..Len(df.rows) : df.rows[i].cells[c.ref] = key}

\* a record's status, trimmed and lowercased; Missing when it has none
StatusAt(i, c) ==
    IF df.rows[i].cells[c.status] = Missing THEN Missing
    ELSE Lower(StripChars(df.rows[i].cells[c.status], Whitespace))

StatusSetOf(key, c) == {StatusAt(i, c) : i \in Members(key, c)} \ {Missing}

\* more than DAY_LIMIT whole days lie between the cell's date and today
Aged(cell) ==
    /\ cell.kind = "ts"
    /\ today - cell.v >= (DAY_LIMIT + 1) * HoursPerDay

PassesDates(row, c) ==
    /\ row.cells[c.initial].kind = "ts"
    /\ row.cells[c.initial].v >= DATE_THRESHOLD
    /\ Aged(row.cells[c.updated])

OtherStatus(k) ==
    CASE k = "2a" -> PO_PAPER_SUBMITTED
      [] k = "2b" -> UNDER_REVIEW
      [] k = "2c" -> UNDER_REVIEW_REVISED
      [] k = "2d" -> SENT_BACK

DateColumn(k, c) == IF k = "2a" THEN c.initial ELSE c.updated

\* the first record of a group
FirstOf(key, c) == df.rows[SetMin(Members(key, c))]

\* the records of a group that pass rule 1's dates
PassingMembers(key, c) ==
    {i \in Members(key, c) : PassesDates(df.rows[i], c)}

\* a table holds one row for each of its references
OneRowPerRef(table, c) ==
    \A i, j \in 1..Len(table) :
        table[i].cells[c.ref] = table[j].cells[c.ref] => i = j

----------------------------------------------------------------------------
(* C1: excel_like_ref is idempotent: normalizing a key again gives the     *)
(* same key.                                                               *)
C1_Idempotent == npc = "twice" => key2 = key1

\* ref is X[X] for a token X of letters, digits, hyphens and underscores
\* that starts with no zr/za/zxx<digits> prefix
IsDuplicated(r, n) ==
    /\ n >= 1
    /\ Len(r) = 2 * n + 2
    /\ \A i \in 1..n : r[i] \in KitTail /\ r[n + 1 + i] = r[i]
    /\ r[n + 1] = "["
    /\ r[2 * n + 2] = "]"
    /\ StripPrefix(SubSeq(r, 1, n)) = SubSeq(r, 1, n)

(* C2: excel_like_ref("X[X]") is X, for every token X of lowercase         *)
(* letters, digits, hyphens and underscores without a prefix.              *)
C2_DuplicateCollapse ==
    \A n \in 1..Len(ref) :
        (npc # "start" /\ ref # Missing /\ IsDuplicated(ref, n))
            => key1 = SubSeq(ref, 1, n)

(* C3: rule 1 returns a row of a group exactly when every record of the    *)
(* group has the status "rejected" (trimmed, lowercased; a missing status  *)
(* is not "rejected") and some record of it has an initial date on or      *)
(* after 2024-01-01 and an updated date more than 25 whole days before     *)
(* today; and every returned row passes both date conditions.              *)
C3_Rule1Membership ==
    last = "p1" =>
        \A c \in {Cols(df.columns)} :
            /\ \A key \in RefsIn(df.rows, c) :
                  key \in RefsIn(result1.table, c) <=>
                      /\ \A i \in Members(key, c) : StatusAt(i, c) = REJECTED
                      /\ \E i \in Members(key, c) : PassesDates(df.rows[i], c)
            /\ RefsIn(result1.table, c) \subseteq RefsIn(df.rows, c)
            /\ \A i \in 1..Len(result1.table) :
                  PassesDates(result1.table[i], c)

\* rule 1 returned one group and left out another for a single status,
\* though a rejected record of it passes the dates
C3_Witness ==
    /\ last = "p1"
    /\ result1.table # <<>>
    /\ \E c \in {Cols(df.columns)} :
          \E key \in RefsIn(df.rows, c) \ RefsIn(result1.table, c) :
              /\ \E i \in Members(key, c) :
                    StatusAt(i, c) = REJECTED /\ PassesDates(df.rows[i], c)
              /\ \E i \in Members(key, c) : StatusAt(i, c) # REJECTED

(* C4: a group is in the table of rule 2x only if the set of its distinct  *)
(* statuses (trimmed, lowercased, missing ones left out) is exactly        *)
(* {"rejected", the rule's other status}.                                  *)
C4_ExactSet ==
    last = "p2" =>
        \A c \in {Cols(df.columns)} :
            \A k \in RuleKeys :
                \A key \in RefsIn(result2.tables[k], c) :
                    /\ key \in RefsIn(df.rows, c)
                    /\ StatusSetOf(key, c) = {REJECTED, OtherStatus(k)}

\* a group holds a rule's pair and a third status, every date is old
\* enough, and no rule returns it
C4_Witness ==
    /\ last = "p2"
    /\ \E c \in {Cols(df.columns)} :
          \E key \in RefsIn(df.rows, c) :
              /\ \E k \in RuleKeys :
                    /\ {REJECTED, OtherStatus(k)} \subseteq StatusSetOf(key, c)
                    /\ Cardinality(StatusSetOf(key, c)) = 3
                    /\ \A i \in Members(key, c) :
                          Aged(df.rows[i].cells[DateColumn(k, c)])
              /\ \A k \in RuleKeys :
                    key \notin RefsIn(result2.tables[k], c)

(* C5: a group whose status set is the pair of rule 2x is returned by it   *)
(* exactly when some record with the rule's other status has a date (the   *)
(* initial date for 2a, the updated date for 2b, 2c and 2d) more than 25   *)
(* whole days before today; the rejected records' dates do not count.      *)
C5_AgeAcceptance ==
    last = "p2" =>
        \A c \in {Cols(df.columns)} :
            \A key \in RefsIn(df.rows, c) :
                \A statuses \in {StatusSetOf(key, c)} :
                    \A k \in RuleKeys :
                        statuses = {REJECTED, OtherStatus(k)} =>
                            (key \in RefsIn(result2.tables[k], c) <=>
                                \E i \in Members(key, c) :
                                    /\ StatusAt(i, c) = OtherStatus(k)
                                    /\ Aged(df.rows[i].cells[DateColumn(k, c)]))

\* rule 2a left out a group with the right pair: its rejected record is
\* old enough, its other record is exactly 25 days old
C5_Witness ==
    /\ last = "p2"
    /\ \E c \in {Cols(df.columns)} :
          \E key \in RefsIn(df.rows, c) :
              /\ StatusSetOf(key, c) = {REJECTED, PO_PAPER_SUBMITTED}
              /\ key \notin RefsIn(result2.tables["2a"], c)
              /\ \E i \in Members(key, c) :
                    /\ StatusAt(i, c) = REJECTED
                    /\ Aged(df.rows[i].cells[c.initial])
              /\ \E i \in Members(key, c) :
                    /\ StatusAt(i, c) = PO_PAPER_SUBMITTED
                    /\ df.rows[i].cells[c.initial].kind = "ts"
                    /\ today - df.rows[i].cells[c.initial].v
                           = DAY_LIMIT * HoursPerDay

\* every row of the table is the first record of its group
FirstOfGroup(table, c) ==
    /\ OneRowPerRef(table, c)
    /\ \A i \in 1..Len(table) :
          /\ table[i].cells[c.ref] \in RefsIn(df.rows, c)
          /\ table[i] = FirstOf(table[i].cells[c.ref], c)

(* C6 as claimed: in every rule's table a group has exactly one row, the   *)
(* first record of the group in the table's order.                         *)
C6_FirstRecordEveryRule ==
    /\ last = "p1" =>
          \A c \in {Cols(df.columns)} : FirstOfGroup(result1.table, c)
    /\ last = "p2" =>
          \A c \in {Cols(df.columns)} :
              \A k \in RuleKeys : FirstOfGroup(result2.tables[k], c)

(* C6 as amended: in every rule's table a group has exactly one row; for   *)
(* 2a-2d it is the first record of the group in the table's order, for     *)
(* rule 1 the first record of the group that passes the date filter.       *)
C6_Deduplication ==
    /\ last = "p1" =>
          \A c \in {Cols(df.columns)} :
              /\ OneRowPerRef(result1.table, c)
              /\ \A i \in 1..Len(result1.table) :
                    \A passing \in
                          {PassingMembers(result1.table[i].cells[c.ref], c)} :
                        /\ passing # {}
                        /\ result1.table[i] = df.rows[SetMin(passing)]
    /\ last = "p2" =>
          \A c \in {Cols(df.columns)} :
              \A k \in RuleKeys : FirstOfGroup(result2.tables[k], c)

\* rule 1 returned, for a group of several records, a row that is not the
\* group's first record
C6_Witness ==
    /\ last = "p1"
    /\ \E c \in {Cols(df.columns)} :
          \E i \in 1..Len(result1.table) :
              /\ Cardinality(Members(result1.table[i].cells[c.ref], c)) > 1
              /\ result1.table[i] # FirstOf(result1.table[i].cells[c.ref], c)

(* C7: a record whose date did not parse never counts as older than the   *)
(* limit: rule 1 returns no row whose initial or updated date did not      *)
(* parse, and rule 2x returns no group whose records with the rule's other *)
(* status all have an unparseable date in the rule's date column.          *)
C7_NullDates ==
    /\ last = "p1" =>
          \A c \in {Cols(df.columns)} :
              \A i \in 1..Len(in1.rows) :
                  (\/ in1.rows[i].cells[c.initial].kind # "ts"
                   \/ in1.rows[i].cells[c.updated].kind # "ts")
                      => in1.rows[i].idx \notin IdxIn(result1.table)
    /\ last = "p2" =>
          \A c \in {Cols(df.columns)} :
              \A k \in RuleKeys :
                  \A key \in RefsIn(df.rows, c) :
                      (\A i \in Members(key, c) :
                          StatusAt(i, c) = OtherStatus(k) =>
                              in2.rows[i].cells[DateColumn(k, c)].kind # "ts")
                          => key \notin RefsIn(result2.tables[k], c)

\* a group has a rule's pair, its rejected record is old enough, and the
\* date of its only record with the other status did not parse
C7_Witness ==
    /\ last = "p2"
    /\ \E c \in {Cols(df.columns)} :
          \E k \in RuleKeys :
              \E key \in RefsIn(df.rows, c) :
                  /\ StatusSetOf(key, c) = {REJECTED, OtherStatus(k)}
                  /\ \E i \in Members(key, c) :
                        /\ StatusAt(i, c) = REJECTED
                        /\ Aged(df.rows[i].cells[DateColumn(k, c)])
                  /\ \A i \in Members(key, c) :
                        StatusAt(i, c) = OtherStatus(k) =>
                            in2.rows[i].cells[DateColumn(k, c)].kind = "text"

\* the column names, the references and the dates of two tables agree
SameFrame(a, b, c) ==
    /\ a.columns = b.columns
    /\ Len(a.rows) = Len(b.rows)
    /\ \A i \in 1..Len(a.rows) :
          \A j \in {c.ref, c.initial, c.updated} :
              a.rows[i].cells[j] = b.rows[i].cells[j]

(* C8: a call leaves the table it is given as it was: the column names,    *)
(* the references and the dates are the same after the call as before.     *)
C8_InputUnchanged ==
    /\ last = "p1" => SameFrame(df, in1, Cols(df.columns))
    /\ last = "p2" => SameFrame(df, in2, Cols(df.columns))

\* two tables put the same records together
SamePartition(a, b, c) ==
    \A i, j \in 1..Len(a) :
        (a[i].cells[c.ref] = a[j].cells[c.ref])
            <=> (b[i].cells[c.ref] = b[j].cells[c.ref])

(* C9: a call made after the other call, on the same table object, groups  *)
(* the records and returns the tables as it does alone on a fresh copy.    *)
C9_CallOrderIndependence ==
    /\ (last = "p2" /\ result1.done /\ in1 = uploaded) =>
          \A alone \in {priority_2_logic(uploaded, today)} :
              /\ SamePartition(df.rows, alone.df.rows, Cols(df.columns))
              /\ \A k \in RuleKeys :
                    IdxIn(result2.tables[k]) = IdxIn(alone.result[k])
    /\ (last = "p1" /\ result2.done /\ in2 = uploaded) =>
          \A alone \in {priority_1_logic(uploaded, today)} :
              /\ SamePartition(df.rows, alone.df.rows, Cols(df.columns))
              /\ IdxIn(result1.table) = IdxIn(alone.result)

(* C10: no reference is in two of the five tables that the two calls make  *)
(* of one input table.                                                     *)
C10_Disjoint ==
    /\ result2.done =>
          \A c \in {Cols(df.columns)} :
              \A k1, k2 \in RuleKeys :
                  k1 # k2 =>
                      RefsIn(result2.tables[k1], c)
                          \cap RefsIn(result2.tables[k2], c) = {}
    /\ (result1.done /\ result2.done /\ in1 = in2) =>
          \A c \in {Cols(df.columns)} :
              \A k \in RuleKeys :
                  RefsIn(result1.table, c)
                      \cap RefsIn(result2.tables[k], c) = {}

\* both calls were given the same table; rule 1 returned a group and a
\* rule 2x another
C10_Witness ==
    /\ result1.done
    /\ result2.done
    /\ in1 = in2
    /\ result1.table # <<>>
    /\ \E k \in RuleKeys : result2.tables[k] # <<>>

====
